---- MODULE Spec2Model ----
(***************************************************************************)
(* Model of dashboard.py (FPL Simple Analytics): the scoring breakdown     *)
(* build_points_contribution, the gameweek breakdown build_gw_breakdown    *)
(* and the overlay show_overlay that renders them for one or two players.  *)
(*                                                                         *)
(* A pandas DataFrame built from a list of dicts is modelled as the list   *)
(* of records (functions from the keys present to integers) together with  *)
(* its column set, the union of the keys.  A key absent from one record    *)
(* but present in another is a NaN cell; a key absent from every record    *)
(* is an absent column.  Percentages are kept in tenths of a percent.      *)
(***************************************************************************)
EXTENDS Integers, Sequences, FiniteSets, TLC

VARIABLES
    contrib_in,   \* arguments of the pending build_points_contribution call
    contrib_out,  \* what that call produced
    gw_in,        \* arguments of the pending build_gw_breakdown call
    gw_out,       \* what that call produced
    weekly,       \* weekly.json: player id -> list of stat records
    players_by_id,\* player id -> Position
    overlay_in,   \* arguments of the pending show_overlay call
    rendered,     \* what show_overlay put on the page
    session_state,\* st.session_state after the latest script run
    page          \* the latest script run: its event, what it rendered

vars ==
    <<contrib_in, contrib_out, gw_in, gw_out, weekly, players_by_id, overlay_in,
      rendered, session_state, page>>

(***************************************************************************)
(* Bounds of the model.                                                    *)
(***************************************************************************)
MaxRecords == 2      \* records in one build_points_contribution input
MaxWeeks == 5        \* weeks in one ascending weekly-points history
MaxShuffled == 3     \* weeks in one history given in arbitrary order
MaxHistory == 2      \* weeks of history per player in the overlay

NoCall == [kind |-> "none"]

(***************************************************************************)
(* Generic helpers.                                                        *)
(***************************************************************************)
RECURSIVE SumSeq(_)
SumSeq(s) == IF s = <<>> THEN 0 ELSE Head(s) + SumSeq(Tail(s))

Min(a, b) == IF a <= b THEN a ELSE b

Range(s) == {s[i] : i \in DOMAIN s}

SelectIdx(s, Keep(_)) ==
    LET RECURSIVE Go(_)
        Go(i) == IF i > Len(s) THEN <<>>
                 ELSE IF Keep(s[i]) THEN <<s[i]>> \o Go(i + 1) ELSE Go(i + 1)
    IN Go(1)

\* numpy round (half to even) of n/d for d > 0
RoundHalfEven(n, d) ==
    LET q == n \div d
        r == n % d
    IN IF 2 * r < d THEN q
       ELSE IF 2 * r > d THEN q + 1
       ELSE IF q % 2 = 0 THEN q ELSE q + 1

(***************************************************************************)
(* Stat records and data frames.                                           *)
(***************************************************************************)
Positions == {"GK", "DEF", "MID", "FWD"}

StatColumns ==
    <<"minutes", "goals_scored", "assists", "clean_sheets", "goals_conceded",
      "yellow_cards", "red_cards", "own_goals", "saves", "penalties_saved",
      "penalties_missed", "bonus">>

AllColumns ==
    {"round", "total_points", "defensive_contribution"} \cup Range(StatColumns)

\* pd.DataFrame(history): the rows and the union of their keys
DataFrame(history) ==
    [columns |-> UNION {DOMAIN history[i] : i \in DOMAIN history},
     rows |-> history]

\* df.empty: no rows or no columns
IsEmpty(df) == Len(df.rows) = 0 \/ df.columns = {}

\* series.fillna(0) at one row: a NaN cell reads 0
Fillna0(r, col) == IF col \in DOMAIN r THEN r[col] ELSE 0

\* df[col].fillna(0) as a sequence
Column(df, col) == [i \in DOMAIN df.rows |-> Fillna0(df.rows[i], col)]

(***************************************************************************)
(* build_points_contribution (dashboard.py 363-495).                       *)
(***************************************************************************)
BaseCategories == <<"Minutes", "Goals", "Assists", "Bonus", "Cards", "Own Goals">>

\* allowed_categories with the DEF list pasted into the MID branch
allowed_categories_mid_as_def(position) ==
    BaseCategories \o
    (CASE position = "GK" ->
            <<"Clean Sheets", "Goals Conceded", "Saves", "Penalty Saves",
              "Penalty Misses">>
       [] position \in {"DEF", "MID"} ->
            <<"Clean Sheets", "Goals Conceded", "Penalty Misses",
              "Defensive Contribution">>
       [] position = "FWD" ->
            <<"Penalty Misses", "Defensive Contribution">>
       [] OTHER -> <<>>)

\* allowed_categories after the position chain; no branch for other values
allowed_categories(position) ==
    BaseCategories \o
    (CASE position = "GK" ->
            <<"Clean Sheets", "Goals Conceded", "Saves", "Penalty Saves",
              "Penalty Misses">>
       [] position = "DEF" ->
            <<"Clean Sheets", "Goals Conceded", "Penalty Misses",
              "Defensive Contribution">>
       [] position = "MID" ->
            <<"Clean Sheets", "Penalty Misses", "Defensive Contribution">>
       [] position = "FWD" ->
            <<"Penalty Misses", "Defensive Contribution">>
       [] OTHER -> <<>>)

\* ((mins > 0) & (mins < 60)) * 1 + (mins >= 60) * 2
minutes_points(mins) ==
    (IF mins > 0 /\ mins < 60 THEN 1 ELSE 0) + (IF mins >= 60 THEN 2 ELSE 0)

\* goal_points_map.get(position, 0)
goal_points_map(position) ==
    CASE position = "GK" -> 10
      [] position = "DEF" -> 6
      [] position = "MID" -> 5
      [] position = "FWD" -> 4
      [] OTHER -> 0

goals_points(position, goals_scored) == goals_scored * goal_points_map(position)

assist_points(assists) == assists * 3

cs_points(position, mins, clean_sheets) ==
    LET cs_mask == IF mins >= 60 /\ clean_sheets > 0 THEN 1 ELSE 0
    IN IF position \in {"GK", "DEF"} THEN cs_mask * 4
       ELSE IF position = "MID" THEN cs_mask * 1
       ELSE 0 * cs_mask

\* gc_points rounding the half goal up: -1 from the first goal conceded
gc_points_rounded_up(position, goals_conceded) ==
    IF position \in {"GK", "DEF"} THEN -((goals_conceded + 1) \div 2) ELSE 0

gc_points(position, goals_conceded) ==
    IF position \in {"GK", "DEF"} THEN -(goals_conceded \div 2) ELSE 0

save_points(saves) == (saves \div 3) * 1

pen_save_points(pen_saved) == pen_saved * 5

pen_miss_points(pen_missed) == pen_missed * (-2)

card_points(yc, rc) == yc * (-1) + rc * (-3)

og_points(own_goals) == own_goals * (-2)

\* dc_points without the clip(upper=1)
dc_points_unclipped(position, dc) ==
    IF position = "DEF" THEN (dc \div 10) * 2
    ELSE IF position \in {"MID", "FWD"} THEN (dc \div 12) * 2
    ELSE 0 * dc

\* ((dc // 10).clip(upper=1)) * 2 for DEF, // 12 for MID and FWD
dc_points(position, dc) ==
    IF position = "DEF" THEN Min(dc \div 10, 1) * 2
    ELSE IF position \in {"MID", "FWD"} THEN Min(dc \div 12, 1) * 2
    ELSE 0 * dc

\* the per-record series of one category, summed over the frame
raw_contrib(df, position) ==
    LET col(c) == Column(df, c)
        n == DOMAIN df.rows
        sum(f) == SumSeq(f)
    IN [cat \in {"Minutes", "Goals", "Assists", "Clean Sheets", "Goals Conceded",
                 "Defensive Contribution", "Cards", "Saves", "Penalty Saves",
                 "Penalty Misses", "Own Goals", "Bonus"} |->
        CASE cat = "Minutes" ->
               sum([i \in n |-> minutes_points(col("minutes")[i])])
          [] cat = "Goals" ->
               sum([i \in n |-> goals_points(position, col("goals_scored")[i])])
          [] cat = "Assists" ->
               sum([i \in n |-> assist_points(col("assists")[i])])
          [] cat = "Clean Sheets" ->
               sum([i \in n |-> cs_points(position, col("minutes")[i],
                                          col("clean_sheets")[i])])
          [] cat = "Goals Conceded" ->
               sum([i \in n |-> gc_points(position, col("goals_conceded")[i])])
          [] cat = "Defensive Contribution" ->
               sum([i \in n |-> dc_points(position,
                                          col("defensive_contribution")[i])])
          [] cat = "Cards" ->
               sum([i \in n |-> card_points(col("yellow_cards")[i],
                                            col("red_cards")[i])])
          [] cat = "Saves" ->
               sum([i \in n |-> save_points(col("saves")[i])])
          [] cat = "Penalty Saves" ->
               sum([i \in n |-> pen_save_points(col("penalties_saved")[i])])
          [] cat = "Penalty Misses" ->
               sum([i \in n |-> pen_miss_points(col("penalties_missed")[i])])
          [] cat = "Own Goals" ->
               sum([i \in n |-> og_points(col("own_goals")[i])])
          [] cat = "Bonus" ->
               sum(col("bonus"))]

\* the "% of Total" column, in tenths of a percent
pct_of_total(points, total_points) ==
    IF total_points > 0 THEN RoundHalfEven(points * 1000, total_points) ELSE 0

\* df_hist[col] raises KeyError for an absent column; the columns are read
\* in this order (defensive_contribution is read with .get and a default)
ReadOrder == <<"total_points">> \o StatColumns

MissingColumns(df) == SelectIdx(ReadOrder, LAMBDA c : c \notin df.columns)

build_points_contribution(df_hist, position) ==
    LET cats == allowed_categories(position)
    IN IF IsEmpty(df_hist)
       THEN [kind |-> "ok",
             rows |-> [i \in DOMAIN cats |->
                          [Category |-> cats[i], Points |-> 0, Pct |-> 0]],
             total |-> 0,
             error |-> ""]
       ELSE IF MissingColumns(df_hist) # <<>>
       THEN [kind |-> "KeyError",
             rows |-> <<>>,
             total |-> 0,
             error |-> Head(MissingColumns(df_hist))]
       ELSE LET total_points == SumSeq(Column(df_hist, "total_points"))
                raw == raw_contrib(df_hist, position)
            IN [kind |-> "ok",
                rows |-> [i \in DOMAIN cats |->
                             [Category |-> cats[i],
                              Points |-> raw[cats[i]],
                              Pct |-> pct_of_total(raw[cats[i]], total_points)]],
                total |-> total_points,
                error |-> ""]

(***************************************************************************)
(* Inputs of build_points_contribution: frames of up to MaxRecords records *)
(* drawn from sample stat records of the feed, some with keys absent.      *)
(***************************************************************************)
Rec(over) ==
    [c \in AllColumns |->
        IF c \in DOMAIN over THEN over[c] ELSE IF c = "round" THEN 1 ELSE 0]

Drop(r, cols) == [c \in (DOMAIN r) \ cols |-> r[c]]

SampleRecords ==
    { Rec([minutes |-> 0]),
      Rec([minutes |-> 90, clean_sheets |-> 1, total_points |-> 6]),
      Rec([minutes |-> 45, clean_sheets |-> 1, total_points |-> 1]),
      Rec([minutes |-> 90, goals_scored |-> 1, assists |-> 1, bonus |-> 3,
           total_points |-> 13]),
      Rec([minutes |-> 90, goals_conceded |-> 1, total_points |-> 2]),
      Rec([minutes |-> 45, goals_conceded |-> 2]),
      Rec([minutes |-> 90, goals_conceded |-> 3, defensive_contribution |-> 25,
           total_points |-> 3]),
      Rec([minutes |-> 90, defensive_contribution |-> 10, total_points |-> 4]),
      Rec([minutes |-> 90, defensive_contribution |-> 11, total_points |-> 2]),
      Rec([minutes |-> 60, defensive_contribution |-> 12, total_points |-> 4]),
      Rec([minutes |-> 59, defensive_contribution |-> 9, total_points |-> 1]),
      Rec([minutes |-> 90, saves |-> 7, penalties_saved |-> 1,
           total_points |-> 9]),
      Rec([minutes |-> 30, yellow_cards |-> 1, red_cards |-> 1, own_goals |-> 1,
           penalties_missed |-> 1, total_points |-> -7]),
      Rec([yellow_cards |-> 1, total_points |-> -1]),
      Rec([minutes |-> 90, own_goals |-> 1]),
      Drop(Rec([minutes |-> 90, clean_sheets |-> 1, total_points |-> 6]),
           {"minutes"}),
      Drop(Rec([minutes |-> 90, defensive_contribution |-> 10,
                total_points |-> 4]), {"defensive_contribution"}),
      Drop(Rec([minutes |-> 90, saves |-> 7, penalties_saved |-> 1,
                total_points |-> 9]), {"saves", "bonus"}),
      Drop(Rec([total_points |-> 2]),
           Range(StatColumns) \cup {"defensive_contribution"}) }

\* a position outside the four, as load_players leaves for other element types
OtherPosition == "NaN"

ContribHists(most) == UNION {[1..n -> SampleRecords] : n \in 0..most}

InitContrib ==
    /\ \E h \in ContribHists(MaxRecords), p \in Positions \cup {OtherPosition} :
          contrib_in = [df_hist |-> DataFrame(h), position |-> p]
    /\ contrib_out = NoCall
    /\ gw_in = NoCall
    /\ gw_out = NoCall
    /\ weekly = <<>>
    /\ players_by_id = <<>>
    /\ session_state = NoCall
    /\ page = NoCall
    /\ overlay_in = NoCall
    /\ rendered = NoCall

CallBuildPointsContribution ==
    /\ contrib_in # NoCall
    /\ contrib_out = NoCall
    /\ contrib_out' = build_points_contribution(contrib_in.df_hist,
                                                contrib_in.position)
    /\ UNCHANGED <<contrib_in, gw_in, gw_out, weekly, players_by_id, overlay_in,
                   rendered, session_state, page>>

NextContrib == CallBuildPointsContribution

SpecContrib == InitContrib /\ [][NextContrib]_vars

(***************************************************************************)
(* The script (dashboard.py 12-28, 166-298, 775-794) as Streamlit runs it: *)
(* every user event on a widget triggers one run from the top with the     *)
(* widget's new value already in st.session_state; an on_click callback    *)
(* runs before that run; st.rerun() ends the run at once and starts        *)
(* another, which belongs to the same event.  A selectbox whose stored value is no longer among its options *)
(* falls back to its first option; when its option list changes, the       *)
(* library may also discard a value that is still an option.               *)
(***************************************************************************)
MaxGw == 2           \* max_gw, the last gameweek of the cached histories

min_gw == 1

NoPlayer == 0        \* None in the player selectboxes

TeamOptions == <<"All Teams", "Arsenal">>

PositionOptions == <<"All", "GK", "DEF", "MID", "FWD">>

SortColumnOptions ==
    <<"Points (GW Range)", "Current Price", "Points Per Million",
      "Selected By %", "Template Value", "Differential Value">>

SortOrderOptions == <<"Descending", "Ascending">>

\* the values the user is let to pick in a filter widget: the first option
\* (its default) and the last one
Picked(options) == {options[1], options[Len(options)]}

SliderValues == {w \in (min_gw..MaxGw) \X (min_gw..MaxGw) : w[1] <= w[2]}

\* the players of the bootstrap data and their positions
Roster == <<"GK", "GK", "DEF">>

ALL_PLAYER_IDS == DOMAIN players_by_id

primary_options == {NoPlayer} \cup ALL_PLAYER_IDS

compare_candidates(primary_player_id) ==
    IF primary_player_id # NoPlayer
    THEN {NoPlayer} \cup
         {pid \in ALL_PLAYER_IDS :
             players_by_id[pid] = players_by_id[primary_player_id]}
    ELSE {NoPlayer} \cup ALL_PLAYER_IDS

trigger_reset(ss) == [ss EXCEPT !.reset_flag = TRUE]

\* apply_reset that leaves the view mode alone
apply_reset_keeps_view_mode(ss) ==
    [ss EXCEPT !.team_filter = "All Teams",
               !.position_filter = "All",
               !.gw_slider = <<min_gw, MaxGw>>,
               !.sort_column = "Points (GW Range)",
               !.sort_order = "Descending",
               !.selected_player_id = NoPlayer,
               !.primary_player_id = NoPlayer,
               !.compare_player_id = NoPlayer,
               !.compare_players_ids = <<>>]

apply_reset(ss) ==
    [ss EXCEPT !.team_filter = "All Teams",
               !.position_filter = "All",
               !.gw_slider = <<min_gw, MaxGw>>,
               !.sort_column = "Points (GW Range)",
               !.sort_order = "Descending",
               !.selected_player_id = NoPlayer,
               !.primary_player_id = NoPlayer,
               !.compare_player_id = NoPlayer,
               !.compare_players_ids = <<>>,
               !.view_mode = "main"]

\* if st.session_state.reset_flag: apply_reset(); reset_flag = False
reset_block(ss) ==
    IF ss.reset_flag THEN [apply_reset(ss) EXCEPT !.reset_flag = FALSE] ELSE ss

\* the two player selectboxes and selected_player_id = primary_player_id
player_selectboxes(ss) ==
    [ss EXCEPT !.selected_player_id = ss.primary_player_id,
               !.compare_player_id =
                   IF ss.compare_player_id \in compare_candidates(ss.primary_player_id)
                   THEN ss.compare_player_id ELSE NoPlayer]

view_player_button(ss) ==
    IF ss.primary_player_id # NoPlayer
    THEN [ss EXCEPT !.view_mode = "single",
                    !.compare_players_ids = <<ss.primary_player_id>>]
    ELSE ss

\* chosen after list(dict.fromkeys(chosen))
chosen_players(ss) ==
    LET first == IF ss.primary_player_id # NoPlayer
                 THEN <<ss.primary_player_id>> ELSE <<>>
    IN IF ss.compare_player_id # NoPlayer
          /\ ss.compare_player_id \notin Range(first)
       THEN first \o <<ss.compare_player_id>>
       ELSE first

\* the Compare Players button accepting a single chosen player
compare_players_button_one_enough(ss) ==
    LET chosen == chosen_players(ss)
    IN IF Len(chosen) >= 1
       THEN [ss EXCEPT !.compare_players_ids = SubSeq(chosen, 1, Min(2, Len(chosen))),
                       !.view_mode = "compare"]
       ELSE ss

compare_players_button(ss) ==
    LET chosen == chosen_players(ss)
    IN IF Len(chosen) >= 2
       THEN [ss EXCEPT !.compare_players_ids = SubSeq(chosen, 1, 2),
                       !.view_mode = "compare"]
       ELSE ss

\* the condition under which the page content calls show_overlay
overlay_shown(ss) ==
    \/ ss.view_mode = "single" /\ ss.selected_player_id # NoPlayer
    \/ ss.view_mode = "compare" /\ Len(ss.compare_players_ids) >= 2

NoButton == ""

\* one run of the script, with at most one button reporting a click
script_run(ss, button) ==
    LET s1 == reset_block(ss)
        s2 == player_selectboxes(s1)
        s3 == IF button = "View Player" THEN view_player_button(s2)
              ELSE IF button = "Compare Players" THEN compare_players_button(s2)
              ELSE s2
        back == button = "Back" /\ overlay_shown(s3)
    IN [ss |-> IF back THEN trigger_reset(s3) ELSE s3,
        page |-> [event |-> button,
                  parts |-> (IF overlay_shown(s3) THEN {"overlay"} ELSE {})
                            \cup (IF s3.view_mode = "main" /\ ~back
                                  THEN {"table"} ELSE {}),
                  rerun |-> back]]

\* the runs one event causes: the run itself and, when it ends in
\* st.rerun(), the run that follows with no button clicked
run_to_completion(ss, button) ==
    LET first == script_run(ss, button)
    IN IF first.page.rerun
       THEN [script_run(first.ss, NoButton) EXCEPT !.page.event = button]
       ELSE first

\* the state the first run leaves: the defaults of lines 12-28 and every
\* widget at its first option
SessionDefaults ==
    [view_mode |-> "main",
     selected_player_id |-> NoPlayer,
     compare_players_ids |-> <<>>,
     primary_player_id |-> NoPlayer,
     compare_player_id |-> NoPlayer,
     reset_flag |-> FALSE,
     team_filter |-> "All Teams",
     position_filter |-> "All",
     gw_slider |-> <<min_gw, MaxGw>>,
     sort_column |-> "Points (GW Range)",
     sort_order |-> "Descending"]

Init ==
    /\ players_by_id = Roster
    /\ session_state = run_to_completion(SessionDefaults, NoButton).ss
    /\ page = run_to_completion(SessionDefaults, NoButton).page
    /\ weekly = <<>>
    /\ contrib_in = NoCall
    /\ contrib_out = NoCall
    /\ gw_in = NoCall
    /\ gw_out = NoCall
    /\ overlay_in = NoCall
    /\ rendered = NoCall

Engine == <<contrib_in, contrib_out, gw_in, gw_out, weekly, players_by_id,
            overlay_in, rendered>>

Run(ss, button) ==
    /\ session_state' = run_to_completion(ss, button).ss
    /\ page' = run_to_completion(ss, button).page
    /\ UNCHANGED Engine

\* the user changes one of the filter widgets
ChangeFilter ==
    /\ \/ \E v \in Picked(TeamOptions) :
             Run([session_state EXCEPT !.team_filter = v], NoButton)
       \/ \E v \in Picked(PositionOptions) :
             Run([session_state EXCEPT !.position_filter = v], NoButton)
       \/ \E v \in SliderValues :
             Run([session_state EXCEPT !.gw_slider = v], NoButton)
       \/ \E v \in Picked(SortColumnOptions) :
             Run([session_state EXCEPT !.sort_column = v], NoButton)
       \/ \E v \in Picked(SortOrderOptions) :
             Run([session_state EXCEPT !.sort_order = v], NoButton)

\* the user picks the primary player; the second selectbox's options may change
ChoosePrimary ==
    /\ \E p \in primary_options :
       \E c \in IF compare_candidates(p)
                     = compare_candidates(session_state.primary_player_id)
                THEN {session_state.compare_player_id}
                ELSE {NoPlayer} \cup ({session_state.compare_player_id}
                                       \cap compare_candidates(p)) :
          Run([session_state EXCEPT !.primary_player_id = p,
                                    !.compare_player_id = c], NoButton)

ChooseCompare ==
    /\ \E c \in compare_candidates(session_state.primary_player_id) :
          Run([session_state EXCEPT !.compare_player_id = c], NoButton)

PressViewPlayer ==
    /\ Run(session_state, "View Player")

PressComparePlayers ==
    /\ Run(session_state, "Compare Players")

\* on_click=trigger_reset runs before the run the click triggers
PressReset ==
    /\ Run(trigger_reset(session_state), "Reset")

\* the Back button exists only on a page that shows the overlay; its run
\* calls trigger_reset() and st.rerun()
PressBack ==
    /\ "overlay" \in page.parts
    /\ Run(session_state, "Back")

Next ==
    \/ ChangeFilter
    \/ ChoosePrimary
    \/ ChooseCompare
    \/ PressViewPlayer
    \/ PressComparePlayers
    \/ PressReset
    \/ PressBack

Spec == Init /\ [][Next]_vars

(***************************************************************************)
(* Properties of build_points_contribution, checked under SpecContrib.     *)
(***************************************************************************)
ContribDone == contrib_out # NoCall

ContribOk == ContribDone /\ contrib_out.kind = "ok"

ValidPosition == contrib_in.position \in Positions

InRows == contrib_in.df_hist.rows

CategoriesOf(out) == {out.rows[i].Category : i \in DOMAIN out.rows}

PointsOf(out, cat) ==
    SumSeq([i \in DOMAIN out.rows |->
               IF out.rows[i].Category = cat THEN out.rows[i].Points ELSE 0])

PointsSum(out) == SumSeq([i \in DOMAIN out.rows |-> out.rows[i].Points])

AuthoritativeTotal ==
    SumSeq([i \in DOMAIN InRows |-> Fillna0(InRows[i], "total_points")])

\* C1: the points of the rows of the breakdown sum to the authoritative
\* total, an "Unattributed" row being present exactly when the rule-based
\* categories alone do not add up to it.
C1_Reconciliation ==
    (ContribOk /\ ValidPosition) =>
        /\ PointsSum(contrib_out) = AuthoritativeTotal
        /\ ("Unattributed" \in CategoriesOf(contrib_out)) <=>
               (PointsSum(contrib_out) - PointsOf(contrib_out, "Unattributed")
                    # AuthoritativeTotal)

\* C2: a position outside GK, DEF, MID, FWD fails with InvalidPosition and
\* returns no breakdown.
C2_InvalidPosition ==
    (ContribDone /\ ~ValidPosition) =>
        /\ contrib_out.kind = "InvalidPosition"
        /\ contrib_out.rows = <<>>

\* C3: the breakdown holds only categories eligible for the position (Saves
\* and Penalty Saves only for GK, Goals Conceded only for GK and DEF,
\* Defensive Contribution never for GK), and the category set on a non-empty
\* input is the one returned for the empty input.
C3_Eligibility ==
    (ContribOk /\ ValidPosition) =>
        LET cats == CategoriesOf(contrib_out)
            pos == contrib_in.position
        IN /\ ("Saves" \in cats \/ "Penalty Saves" \in cats) => pos = "GK"
           /\ "Goals Conceded" \in cats => pos \in {"GK", "DEF"}
           /\ "Defensive Contribution" \in cats => pos # "GK"
           /\ cats = CategoriesOf(build_points_contribution(DataFrame(<<>>), pos))
           /\ Len(contrib_out.rows) = Cardinality(cats)

C3_Witness ==
    /\ ContribOk
    /\ contrib_in.position = "FWD"
    /\ Len(InRows) = 2
    /\ \E i \in DOMAIN InRows : Fillna0(InRows[i], "saves") > 0
    /\ \E i \in DOMAIN InRows : Fillna0(InRows[i], "goals_conceded") > 0
    /\ "Penalty Misses" \in CategoriesOf(contrib_out)

DcThreshold(pos) == IF pos = "DEF" THEN 10 ELSE 12

\* C6: Defensive Contribution is 2 points for each record whose raw count
\* reaches the position threshold (DEF 10, MID and FWD 12) and nothing else,
\* whatever the sum of the raw counts.
C6_DefensiveContributionPerMatch ==
    (ContribOk /\ contrib_in.position \in {"DEF", "MID", "FWD"}) =>
        PointsOf(contrib_out, "Defensive Contribution") =
            2 * Cardinality({i \in DOMAIN InRows :
                    Fillna0(InRows[i], "defensive_contribution")
                        >= DcThreshold(contrib_in.position)})

C6_Witness ==
    /\ ContribOk
    /\ ~IsEmpty(contrib_in.df_hist)
    /\ contrib_in.position = "DEF"
    /\ Len(InRows) = 2
    /\ Fillna0(InRows[1], "defensive_contribution") = 25
    /\ Fillna0(InRows[2], "defensive_contribution") = 9
    /\ PointsOf(contrib_out, "Defensive Contribution") = 2

\* the frame with 0 written into every absent numeric field
ZeroFilled(df) ==
    DataFrame([i \in DOMAIN df.rows |->
                  [c \in AllColumns |-> Fillna0(df.rows[i], c)]])

\* C8: a record with a required numeric field absent is handled as if the
\* field were 0: the call returns the breakdown of the zero-filled input and
\* raises nothing.
C8_MissingFieldIsZero ==
    (ContribDone /\ ValidPosition /\ ~IsEmpty(contrib_in.df_hist)
        /\ "total_points" \in contrib_in.df_hist.columns) =>
        /\ contrib_out.kind = "ok"
        /\ contrib_out = build_points_contribution(
                             ZeroFilled(contrib_in.df_hist), contrib_in.position)

\* C11: for GK and DEF the Goals Conceded row is minus the sum over the
\* records of floor(goals_conceded / 2), whatever the minutes, so two matches
\* conceding one goal each give 0; for MID and FWD goals conceded add no
\* points to any row.
C11_GoalsConcededPerMatch ==
    (ContribOk /\ ValidPosition) =>
        IF contrib_in.position \in {"GK", "DEF"}
        THEN /\ "Goals Conceded" \in CategoriesOf(contrib_out)
             /\ PointsOf(contrib_out, "Goals Conceded") =
                    -SumSeq([i \in DOMAIN InRows |->
                                Fillna0(InRows[i], "goals_conceded") \div 2])
        ELSE /\ "Goals Conceded" \notin CategoriesOf(contrib_out)
             /\ contrib_out =
                    build_points_contribution(
                        DataFrame([i \in DOMAIN InRows |->
                            IF "goals_conceded" \in DOMAIN InRows[i]
                            THEN [InRows[i] EXCEPT !["goals_conceded"] = 0]
                            ELSE InRows[i]]),
                        contrib_in.position)

C11_Witness ==
    /\ ContribOk
    /\ contrib_in.position = "DEF"
    /\ Len(InRows) = 2
    /\ Fillna0(InRows[1], "goals_conceded") = 1
    /\ Fillna0(InRows[2], "goals_conceded") = 1
    /\ PointsOf(contrib_out, "Goals Conceded") = 0

\* points / total x 100 rounded to one decimal, in tenths, for total # 0
ExactPct(points, total) ==
    IF total > 0 THEN RoundHalfEven(points * 1000, total)
    ELSE RoundHalfEven((-points) * 1000, -total)

\* C9: each category's percentage is points / total x 100 rounded to one
\* decimal for every non-zero authoritative total, negative ones included,
\* and 0 when the total is 0.
C9_PercentOfTotal ==
    (ContribOk /\ ValidPosition) =>
        \A i \in DOMAIN contrib_out.rows :
            contrib_out.rows[i].Pct =
                IF contrib_out.total = 0 THEN 0
                ELSE ExactPct(contrib_out.rows[i].Points, contrib_out.total)

(***************************************************************************)
(* build_gw_breakdown (dashboard.py 533-587).  The Fixture column, which   *)
(* only relabels rows, is left out.                                        *)
(***************************************************************************)
\* df_hist[(df_hist["round"] >= gw1) & (df_hist["round"] <= gw2)]
FilterRange(df, gw1, gw2) ==
    [columns |-> df.columns,
     rows |-> SelectIdx(df.rows, LAMBDA r : r["round"] >= gw1 /\ r["round"] <= gw2)]

\* sort_values without the sort: the rows stay in input order
sort_values_round_skipped(rows) == rows

\* df.sort_values("round")
sort_values_round(rows) ==
    LET RECURSIVE Insert(_, _)
        Insert(r, sorted) ==
            IF sorted = <<>> THEN <<r>>
            ELSE IF r["round"] < Head(sorted)["round"] THEN <<r>> \o sorted
            ELSE <<Head(sorted)>> \o Insert(r, Tail(sorted))
        RECURSIVE Go(_)
        Go(k) == IF k = 0 THEN <<>> ELSE Insert(rows[k], Go(k - 1))
    IN Go(Len(rows))

\* z >= 1.5 with the absolute value of z taken: low weeks flagged too
high_outlier_abs(points, i) ==
    LET n == Len(points)
        s == SumSeq(points)
        dev(k) == n * points[k] - s
        sqdev == SumSeq([k \in DOMAIN points |-> dev(k) * dev(k)])
    IN /\ sqdev # 0
       /\ 4 * n * dev(i) * dev(i) >= 9 * sqdev

\* std(ddof=0) != 0 and (Points - mean) / std(ddof=0) >= 1.5 at row i, with
\* mean = s/n and std = sqrt(sum((Points - mean)^2) / n), all scaled by n
high_outlier(points, i) ==
    LET n == Len(points)
        s == SumSeq(points)
        dev(k) == n * points[k] - s
        sqdev == SumSeq([k \in DOMAIN points |-> dev(k) * dev(k)])
    IN /\ sqdev # 0
       /\ dev(i) >= 0
       /\ 4 * n * dev(i) * dev(i) >= 9 * sqdev

\* Points / total * 100 rounded to one decimal when total > 0, else 0
pct_vals(points, total) ==
    IF total > 0 THEN RoundHalfEven(points * 1000, total) ELSE 0

build_gw_breakdown(df_hist, gw1, gw2) ==
    LET df == FilterRange(df_hist, gw1, gw2)
    IN IF IsEmpty(df)
       THEN [kind |-> "None", df_view |-> <<>>, spark_data |-> <<>>]
       ELSE LET sorted == sort_values_round(df.rows)
                points == [i \in DOMAIN sorted |->
                              Fillna0(sorted[i], "total_points")]
                total == SumSeq(points)
            IN [kind |-> "ok",
                df_view |-> [i \in DOMAIN sorted |->
                                [Points |-> points[i],
                                 Gameweek |-> sorted[i]["round"],
                                 Pct |-> pct_vals(points[i], total),
                                 Outlier |-> high_outlier(points, i)]],
                spark_data |-> points]

(***************************************************************************)
(* Inputs of build_gw_breakdown: histories with one record per gameweek,   *)
(* either gameweeks 1..n in order with any weekly points, or any           *)
(* arrangement of distinct gameweeks; and a slider window gw1 <= gw2.      *)
(***************************************************************************)
PointVals == {-1, 2, 5, 20}

Week(gw, pts) == [round |-> gw, total_points |-> pts]

AscendingHists(most) ==
    UNION { { [i \in 1..n |-> Week(i, pts[i])] : pts \in [1..n -> PointVals] } :
            n \in 0..most }

ShuffledHists(most) ==
    UNION { { [i \in 1..n |-> Week(gws[i], pts[i])] :
                gws \in {f \in [1..n -> 1..(most + 1)] :
                            \A a, b \in 1..n : a # b => f[a] # f[b]},
                pts \in [1..n -> {0, 3}] } :
            n \in 0..most }

Windows(last) == {w \in (1..last) \X (1..last) : w[1] <= w[2]}

InitGw ==
    /\ \/ \E h \in AscendingHists(MaxWeeks), w \in Windows(MaxWeeks) :
             gw_in = [df_hist |-> DataFrame(h), gw1 |-> w[1], gw2 |-> w[2]]
       \/ \E h \in ShuffledHists(MaxShuffled), w \in Windows(MaxShuffled + 1) :
             gw_in = [df_hist |-> DataFrame(h), gw1 |-> w[1], gw2 |-> w[2]]
    /\ gw_out = NoCall
    /\ contrib_in = NoCall
    /\ contrib_out = NoCall
    /\ weekly = <<>>
    /\ players_by_id = <<>>
    /\ session_state = NoCall
    /\ page = NoCall
    /\ overlay_in = NoCall
    /\ rendered = NoCall

CallBuildGwBreakdown ==
    /\ gw_in # NoCall
    /\ gw_out = NoCall
    /\ gw_out' = build_gw_breakdown(gw_in.df_hist, gw_in.gw1, gw_in.gw2)
    /\ UNCHANGED <<gw_in, contrib_in, contrib_out, weekly, players_by_id,
                   overlay_in, rendered, session_state, page>>

NextGw == CallBuildGwBreakdown

SpecGw == InitGw /\ [][NextGw]_vars

(***************************************************************************)
(* show_overlay (dashboard.py 638-772) with render_gw_breakdown (590-632). *)
(* A player's display name is the player id.  The page is the record of    *)
(* what was rendered: the notices, the summary rows, the single table or   *)
(* the comparison table, and the gameweek breakdowns.                      *)
(***************************************************************************)
\* one cell of the comparison table: "pts (pct%)" and the star
comparison_cell(pts, total_pts, row_max) ==
    [pts |-> pts,
     pct |-> IF total_pts > 0 THEN RoundHalfEven(pts * 1000, total_pts) ELSE 0,
     star |-> pts = row_max /\ pts # 0]

Max2(a, b) == IF a >= b THEN a ELSE b

\* the comparison table for two breakdowns; rows are matched by index
comparison_table(contrib_dfs, totals) ==
    LET cats == [i \in DOMAIN contrib_dfs[1].rows |-> contrib_dfs[1].rows[i].Category]
        row_max == [i \in DOMAIN cats |->
                       Max2(contrib_dfs[1].rows[i].Points,
                            contrib_dfs[2].rows[i].Points)]
    IN [i \in DOMAIN cats |->
           [Category |-> cats[i],
            cells |-> [k \in 1..2 |->
                          comparison_cell(contrib_dfs[k].rows[i].Points,
                                          totals[k], row_max[i])]]]

\* what render_gw_breakdown puts in a column: the table, or the notice
\* "No GW data in range" when build_gw_breakdown returns None
render_gw_breakdown(name, pid, gw1, gw2) ==
    [name |-> name,
     pid |-> pid,
     view |-> build_gw_breakdown(DataFrame(weekly[pid]), gw1, gw2)]

show_overlay(player_ids, gw1, gw2) ==
    LET with_history == SelectIdx(player_ids, LAMBDA pid : weekly[pid] # <<>>)
        infos == SelectIdx(player_ids, LAMBDA pid : weekly[pid] = <<>>)
        contrib_dfs ==
            [i \in DOMAIN with_history |->
                build_points_contribution(
                    FilterRange(DataFrame(weekly[with_history[i]]), gw1, gw2),
                    players_by_id[with_history[i]])]
        totals == [i \in DOMAIN contrib_dfs |-> contrib_dfs[i].total]
        display_names == with_history
        meta_rows == [i \in DOMAIN with_history |->
                         [Player |-> display_names[i],
                          Position |-> players_by_id[with_history[i]],
                          Points |-> totals[i]]]
        blank == [kind |-> "page", infos |-> infos, meta_rows |-> <<>>,
                  single |-> <<>>, comparison |-> <<>>, gw |-> <<>>]
    IN IF \E i \in DOMAIN contrib_dfs : contrib_dfs[i].kind # "ok"
       THEN [blank EXCEPT !.kind = "KeyError"]
       ELSE IF contrib_dfs = <<>>
       THEN [blank EXCEPT !.kind = "no contribution data"]
       ELSE IF Len(display_names) = 1
       THEN [blank EXCEPT
                !.meta_rows = meta_rows,
                !.single = contrib_dfs[1].rows,
                !.gw = IF weekly[player_ids[1]] # <<>>
                       THEN <<render_gw_breakdown(player_ids[1], player_ids[1],
                                                  gw1, gw2)>>
                       ELSE <<>>]
       ELSE IF Len(contrib_dfs[1].rows) # Len(contrib_dfs[2].rows)
       THEN [blank EXCEPT !.kind = "IndexError", !.meta_rows = meta_rows]
       ELSE [blank EXCEPT
                !.meta_rows = meta_rows,
                !.comparison = comparison_table(contrib_dfs, totals),
                !.gw = [i \in 1..Min(Len(player_ids), Len(display_names)) |->
                           render_gw_breakdown(display_names[i], player_ids[i],
                                               gw1, gw2)]]

(***************************************************************************)
(* Inputs of show_overlay: two players of one position (the second player  *)
(* is picked among the primary player's position), each with up to         *)
(* MaxHistory weeks of history for gameweeks 1.., and a slider window.     *)
(***************************************************************************)
OverlayRecords ==
    { Rec([minutes |-> 0]),
      Rec([minutes |-> 90, total_points |-> 2]),
      Rec([minutes |-> 90, goals_scored |-> 1, total_points |-> 6]),
      Rec([minutes |-> 90, yellow_cards |-> 1, total_points |-> 1]) }

OverlayHists(most) ==
    UNION { { [i \in 1..n |-> [h[i] EXCEPT !["round"] = i]] :
                h \in [1..n -> OverlayRecords] } : n \in 0..most }

PlayerIds == {1, 2}

InitOverlay ==
    /\ weekly \in [PlayerIds -> OverlayHists(MaxHistory)]
    /\ \E pos \in Positions : players_by_id = [pid \in PlayerIds |-> pos]
    /\ \E ids \in {<<1>>, <<2>>, <<1, 2>>, <<2, 1>>}, w \in Windows(MaxHistory) :
          overlay_in = [player_ids |-> ids, gw1 |-> w[1], gw2 |-> w[2]]
    /\ rendered = NoCall
    /\ contrib_in = NoCall
    /\ contrib_out = NoCall
    /\ gw_in = NoCall
    /\ gw_out = NoCall
    /\ session_state = NoCall
    /\ page = NoCall

CallShowOverlay ==
    /\ overlay_in # NoCall
    /\ rendered = NoCall
    /\ rendered' = show_overlay(overlay_in.player_ids, overlay_in.gw1,
                                overlay_in.gw2)
    /\ UNCHANGED <<contrib_in, contrib_out, gw_in, gw_out, weekly,
                   players_by_id, overlay_in, session_state, page>>

NextOverlay == CallShowOverlay

SpecOverlay == InitOverlay /\ [][NextOverlay]_vars

(***************************************************************************)
(* Properties of build_gw_breakdown, checked under SpecGw.                 *)
(***************************************************************************)
GwDone == gw_out # NoCall

GwOk == GwDone /\ gw_out.kind = "ok"

SumOver(S, F(_)) ==
    LET RECURSIVE Go(_)
        Go(T) == IF T = {} THEN 0
                 ELSE LET x == CHOOSE y \in T : TRUE IN F(x) + Go(T \ {x})
    IN Go(S)

\* the records of the input whose gameweek lies in [gw1, gw2]
WindowRecords ==
    {r \in Range(gw_in.df_hist.rows) :
        gw_in.gw1 <= r["round"] /\ r["round"] <= gw_in.gw2}

WindowN == Cardinality(WindowRecords)

WindowSum == SumOver(WindowRecords, LAMBDA r : r["total_points"])

WindowSumSq == SumOver(WindowRecords, LAMBDA r : r["total_points"] * r["total_points"])

\* N^2 times the population variance: N * sum(p^2) - (sum p)^2
WindowVarN2 == WindowN * WindowSumSq - WindowSum * WindowSum

\* s # 0 and (p - m) / s >= 1.5, squared and cleared of denominators
ZAtLeastOneAndAHalf(p) ==
    /\ WindowVarN2 # 0
    /\ WindowN * p - WindowSum >= 0
    /\ 4 * (WindowN * p - WindowSum) * (WindowN * p - WindowSum) >= 9 * WindowVarN2

\* C7: a week is flagged exactly when the population standard deviation s
\* of the window's weekly points is non-zero and (points - m) / s >= 1.5;
\* equal weeks flag nothing, no week at or below the mean is flagged, and
\* of [2,2,2,2,20] only the 20-point week is flagged.
C7_HighOutlierFlag ==
    GwOk =>
        /\ \A i \in DOMAIN gw_out.df_view :
              gw_out.df_view[i].Outlier <=>
                  ZAtLeastOneAndAHalf(gw_out.df_view[i].Points)
        /\ \A i \in DOMAIN gw_out.df_view :
              gw_out.df_view[i].Outlier =>
                  WindowN * gw_out.df_view[i].Points > WindowSum
        /\ (\A i, j \in DOMAIN gw_out.df_view :
                gw_out.df_view[i].Points = gw_out.df_view[j].Points) =>
              \A i \in DOMAIN gw_out.df_view : ~gw_out.df_view[i].Outlier
        /\ gw_out.spark_data = <<2, 2, 2, 2, 20>> =>
              \A i \in 1..5 : gw_out.df_view[i].Outlier <=> (i = 5)

C7_Witness ==
    /\ GwOk
    /\ gw_out.spark_data = <<2, 2, 2, 2, 20>>
    /\ gw_out.df_view[5].Outlier
    /\ ~gw_out.df_view[1].Outlier

\* C10: the rows are exactly the records with gw1 <= gameweek <= gw2, in
\* strictly ascending gameweek order whatever the input order, and the
\* points list runs in the order of the rows.
C10_WindowRowsAscending ==
    GwDone =>
        /\ gw_out.kind = "None" <=> WindowRecords = {}
        /\ gw_out.kind = "ok" =>
              /\ Len(gw_out.df_view) = WindowN
              /\ \A r \in WindowRecords :
                    \E i \in DOMAIN gw_out.df_view :
                        /\ gw_out.df_view[i].Gameweek = r["round"]
                        /\ gw_out.df_view[i].Points = r["total_points"]
              /\ \A i \in DOMAIN gw_out.df_view :
                    /\ gw_in.gw1 <= gw_out.df_view[i].Gameweek
                    /\ gw_out.df_view[i].Gameweek <= gw_in.gw2
              /\ \A i, j \in DOMAIN gw_out.df_view :
                    i < j => gw_out.df_view[i].Gameweek < gw_out.df_view[j].Gameweek
              /\ Len(gw_out.spark_data) = Len(gw_out.df_view)
              /\ \A i \in DOMAIN gw_out.df_view :
                    gw_out.spark_data[i] = gw_out.df_view[i].Points

C10_Witness ==
    /\ GwOk
    /\ Len(gw_in.df_hist.rows) = 3
    /\ gw_in.df_hist.rows[1]["round"] > gw_in.df_hist.rows[2]["round"]
    /\ gw_in.df_hist.rows[1]["total_points"] # gw_in.df_hist.rows[2]["total_points"]
    /\ Len(gw_out.df_view) = 2
    /\ gw_out.df_view[1].Gameweek = gw_in.df_hist.rows[2]["round"]
    /\ gw_out.df_view[2].Gameweek = gw_in.df_hist.rows[1]["round"]

(***************************************************************************)
(* Properties of show_overlay, checked under SpecOverlay.                  *)
(***************************************************************************)
OverlayDone == rendered # NoCall

\* C4: in the two-player comparison table a cell carries the winner marker
\* exactly when that player's points in the category are strictly greater
\* than the other player's.
C4_StrictWinnerMarker ==
    OverlayDone =>
        \A i \in DOMAIN rendered.comparison :
            \A k \in 1..2 :
                rendered.comparison[i].cells[k].star <=>
                    (rendered.comparison[i].cells[k].pts >
                        rendered.comparison[i].cells[3 - k].pts)

\* the player has weekly history but no record in the requested window
EmptyWindow(pid) ==
    /\ weekly[pid] # <<>>
    /\ \A i \in DOMAIN weekly[pid] :
          ~(overlay_in.gw1 <= weekly[pid][i]["round"]
              /\ weekly[pid][i]["round"] <= overlay_in.gw2)

\* C5: a player with weekly history but no record in the window gets a
\* "no data" outcome, never a category breakdown (all zero, total 0).
C5_EmptyWindowIsNoData ==
    OverlayDone =>
        \A pid \in Range(overlay_in.player_ids) :
            EmptyWindow(pid) =>
                \A i \in DOMAIN rendered.meta_rows :
                    rendered.meta_rows[i].Player # pid

\* the players whose category breakdown is on the page
DisplayedPlayers == {rendered.meta_rows[i].Player : i \in DOMAIN rendered.meta_rows}

\* C13: every player whose category breakdown is displayed gets a gameweek
\* breakdown (or no-data notice) built from that player's own history, and
\* every gameweek breakdown shown is labelled with the player it belongs to.
C13_OwnGwBreakdown ==
    OverlayDone =>
        /\ \A p \in DisplayedPlayers :
              \E k \in DOMAIN rendered.gw :
                  rendered.gw[k].pid = p /\ rendered.gw[k].name = p
        /\ \A k \in DOMAIN rendered.gw :
              /\ rendered.gw[k].name = rendered.gw[k].pid
              /\ rendered.gw[k].pid \in DisplayedPlayers

(***************************************************************************)
(* Properties of the script runs, checked under Spec.                      *)
(***************************************************************************)

\* C12: every run renders at least one of the player overlay and the main
\* player table.  Lines 784, 788 and 793 leave the page content empty when
\* view_mode is "single" and the primary player has been set back to None.
C12_SomethingRendered == page.parts # {}

ResetEvents == {"Reset", "Back"}

\* C14: the run that follows trigger_reset (the Reset button's run, or the
\* run st.rerun() starts after Back) ends with every reset field at its
\* default, view_mode "main" and the main table rendered, and no event
\* leaves reset_flag True.
C14_ResetApplied ==
    /\ ~session_state.reset_flag
    /\ page.event \in ResetEvents =>
          /\ session_state.view_mode = "main"
          /\ session_state.selected_player_id = NoPlayer
          /\ session_state.primary_player_id = NoPlayer
          /\ session_state.compare_player_id = NoPlayer
          /\ session_state.compare_players_ids = <<>>
          /\ session_state.team_filter = "All Teams"
          /\ session_state.position_filter = "All"
          /\ session_state.gw_slider = <<min_gw, MaxGw>>
          /\ session_state.sort_column = "Points (GW Range)"
          /\ session_state.sort_order = "Descending"
          /\ page.parts = {"table"}

\* Back was pressed on an overlay and the rerun has put the session back
C14_Witness ==
    /\ page.event = "Back"
    /\ session_state = SessionDefaults

ViewModes == {"main", "single", "compare"}

TwoDistinctPlayers(ids) ==
    /\ Len(ids) = 2
    /\ ids[1] # ids[2]
    /\ \A i \in 1..2 : ids[i] \in ALL_PLAYER_IDS

\* the view mode is legal, compare mode holds two distinct players, and a
\* run in which Compare Players took two chosen players holds those two
CompareModeInv ==
    /\ session_state.view_mode \in ViewModes
    /\ session_state.view_mode = "compare" =>
          TwoDistinctPlayers(session_state.compare_players_ids)
    /\ page.event = "Compare Players"
       /\ Len(chosen_players(session_state)) >= 2 =>
          /\ session_state.view_mode = "compare"
          /\ session_state.compare_players_ids = chosen_players(session_state)

\* a run in which Compare Players was pressed with fewer than two distinct
\* chosen players
CompareRefused ==
    /\ page'.event = "Compare Players"
    /\ Len(chosen_players(session_state')) < 2
    /\ ~UNCHANGED vars

\* C15: view_mode is always "main", "single" or "compare"; in compare mode
\* compare_players_ids holds exactly two distinct player ids, the ones
\* chosen when Compare Players was pressed; pressing Compare Players with
\* fewer than two distinct chosen players changes neither view_mode nor
\* compare_players_ids.
C15_CompareMode ==
    /\ []CompareModeInv
    /\ [][CompareRefused =>
             /\ session_state'.view_mode = session_state.view_mode
             /\ session_state'.compare_players_ids
                    = session_state.compare_players_ids]_vars

\* Compare Players was pressed in compare mode with the second player
\* cleared: the mode and the two players of the earlier press are kept
C15_Witness ==
    /\ page.event = "Compare Players"
    /\ session_state.view_mode = "compare"
    /\ Len(chosen_players(session_state)) < 2

====
